---- MODULE Spec2Model ----
(***************************************************************************)
(* WeaviateHybridSearchRetriever                                           *)
(* (libs/community/langchain_community/retrievers/weaviate_hybrid_search.py)*)
(*                                                                         *)
(* The retriever is modelled together with its two collaborators: the      *)
(* backing store reached through `client` (its set of collections, and the *)
(* outcome of every call made on it) and the embedding provider.  What the *)
(* collaborators answer is an input of the action that calls them; what    *)
(* the retriever does with the answer is computed as the code computes it. *)
(*                                                                         *)
(* An optional value (Python None / a value) is a sequence of length 0 / 1.*)
(* alpha is a float in the code; it is kept here in tenths (0.5 is 5).     *)
(***************************************************************************)
EXTENDS Integers, Sequences, FiniteSets, TLC

VARIABLES
    collections,  \* backing store: collection name -> schema
    self,         \* <<>> or <<the retriever instance's fields>>
    ctor,         \* what the last construction was given and how it ended
    search,       \* what the last search was given and how it ended
    calls,        \* collaborator operations invoked by the last handler, in order
    createReqs,   \* schemas sent with create_from_dict since the start
    hybridReqs,   \* keyword mappings that reached query.hybrid in the last search
    nExists       \* collections.exists calls since the start

vars == <<collections, self, ctor, search, calls, createReqs, hybridReqs,
          nExists>>

----------------------------------------------------------------------------
(* Bounds of the model *)

\* longest response (number of raw records) the backing store answers with
MaxRecords == 2

----------------------------------------------------------------------------
(* Values of the model *)

\* names of collections of the backing store
IndexNames == {"Docs", "Notes"}

\* index_name, text_key, alpha (in tenths) and k a retriever may be given
RetrieverNames == {"Docs"}
TextKeys == {"content", "title"}
Alphas == {7}
Ks == {3}

Queries == {"cat", "dog"}
StoreErrors == {"WeaviateQueryError", "ConnectionError"}
EmbedErrors == {"EmbeddingError"}

\* alpha: float = 0.5, in tenths
DefaultAlpha == 5

\* k: int = 4
DefaultK == 4

\* the keyword names the call of query.hybrid spells out
ExplicitKeys == {"query", "limit", "alpha", "vector"}

\* mappings a caller may pass as hybrid_search_kwargs: one that adds an
\* option, and two that name a keyword the call spells out
KwMaps ==
    {[k \in {"auto_limit"} |-> 1], [k \in {"alpha"} |-> 9], [k \in {"limit"} |-> 8]}

\* hybrid_search_kwargs: Optional[Dict[str, object]]
KwInputs == {<<>>} \cup {<<m>> : m \in KwMaps}

\* the property mappings of the raw records: every non-empty set of keys, each
\* key with a value of its own
PropKeys == {"content", "title"}

PropValue(key) == IF key = "content" THEN "a" ELSE "b"

PropMaps == {[key \in D |-> PropValue(key)] : D \in (SUBSET PropKeys) \ {{}}}

RECURSIVE SeqsUpTo(_, _)
SeqsUpTo(S, n) ==
    IF n = 0 THEN {<<>>}
    ELSE LET shorter == SeqsUpTo(S, n - 1)
         IN shorter \cup {Append(s, x) : s \in {t \in shorter : Len(t) = n - 1}, x \in S}

\* result.objects: each object is [properties |-> mapping]
Responses == SeqsUpTo({[properties |-> p] : p \in PropMaps}, MaxRecords)

\* the client argument of the constructor: "WeaviateClient" is an instance of
\* weaviate.WeaviateClient, "object" is an instance of anything else
ClientKinds == {"WeaviateClient", "object"}

\* schemas a collection created by someone else may have
LegacySchema(name) ==
    [class |-> name,
     properties |-> <<[name |-> "body", dataType |-> <<"text">>],
                      [name |-> "year", dataType |-> <<"int">>]>>]

----------------------------------------------------------------------------
(* validate_client: the root validator run at construction *)

\* Schema with the property named "text" whatever text_key is
SchemaFixedKey(index_name, text_key) ==
    [class |-> index_name,
     properties |-> <<[name |-> "text", dataType |-> <<"text">>]>>]

Schema(index_name, text_key) ==
    [class |-> index_name,
     properties |-> <<[name |-> text_key, dataType |-> <<"text">>]>>]

\* client.collections.exists(name)
Exists(store, name) == name \in DOMAIN store

\* client.collections.create_from_dict(schema), when the store accepts it
CreateFromDict(store, schema) ==
    [n \in DOMAIN store \cup {schema.class} |->
        IF n = schema.class THEN schema ELSE store[n]]

Raised(error, store, ops, creates) ==
    [status |-> "raise", error |-> error, store |-> store,
     calls |-> ops, creates |-> creates]

Returned(store, ops, creates) ==
    [status |-> "ok", error |-> "", store |-> store,
     calls |-> ops, creates |-> creates]

\* EnsureSchema without the existence check: the create request is always sent
EnsureSchemaAlwaysCreating(store, index_name, text_key, createError) ==
    LET schema == Schema(index_name, text_key)
    IN IF createError # <<>>
       THEN Raised(createError[1], store, <<"collections.create_from_dict">>, <<schema>>)
       ELSE Returned(CreateFromDict(store, schema),
                     <<"collections.create_from_dict">>, <<schema>>)

\* the schema and the existence check: createError is <<>> when the store
\* accepts a create request, else <<the error it raises>>
EnsureSchema(store, index_name, text_key, createError) ==
    LET schema == Schema(index_name, text_key)
    IN IF ~Exists(store, index_name)
       THEN IF createError # <<>>
            THEN Raised(createError[1], store,
                        <<"collections.exists", "collections.create_from_dict">>,
                        <<schema>>)
            ELSE Returned(CreateFromDict(store, schema),
                          <<"collections.exists", "collections.create_from_dict">>,
                          <<schema>>)
       ELSE Returned(store, <<"collections.exists">>, <<>>)

\* ValidateClient without the isinstance check
ValidateClientUnchecked(installed, client, index_name, text_key, store, createError) ==
    IF ~installed THEN Raised("ImportError", store, <<>>, <<>>)
    ELSE IF client = <<>> THEN Raised("KeyError", store, <<>>, <<>>)
    ELSE EnsureSchema(store, index_name, text_key, createError)

\* installed: `import weaviate` succeeds; client: <<>> when the constructor got
\* no client argument (values["client"] raises KeyError), else <<kind>>
ValidateClient(installed, client, index_name, text_key, store, createError) ==
    IF ~installed THEN Raised("ImportError", store, <<>>, <<>>)
    ELSE IF client = <<>> THEN Raised("KeyError", store, <<>>, <<>>)
    ELSE IF client[1] # "WeaviateClient" THEN Raised("ValueError", store, <<>>, <<>>)
    ELSE EnsureSchema(store, index_name, text_key, createError)

\* the instance pydantic builds from the validated values (alpha and k take
\* their defaults when not given)
Instance(client, index_name, text_key, alpha, k) ==
    [client |-> client[1], index_name |-> index_name, text_key |-> text_key,
     alpha |-> IF alpha = <<>> THEN DefaultAlpha ELSE alpha[1],
     k |-> IF k = <<>> THEN DefaultK ELSE k[1]]

Range(seq) == {seq[i] : i \in 1..Len(seq)}

CountOf(ops, op) == Cardinality({i \in 1..Len(ops) : ops[i] = op})

----------------------------------------------------------------------------
(* _get_relevant_documents *)

\* dict.pop(key) on a mapping that holds key: the mapping left behind
Pop(props, key) == [x \in DOMAIN props \ {key} |-> props[x]]

Document(page_content, metadata) ==
    [page_content |-> page_content, metadata |-> metadata]

\* MapObjects putting each document in front of those collected so far
RECURSIVE MapObjectsPrepending(_, _, _, _)
MapObjectsPrepending(objects, i, docs, text_key) ==
    IF i > Len(objects)
    THEN [status |-> "ok", error |-> "", docs |-> docs, objects |-> objects]
    ELSE IF text_key \notin DOMAIN objects[i].properties
    THEN [status |-> "raise", error |-> "KeyError", docs |-> <<>>, objects |-> objects]
    ELSE LET text == objects[i].properties[text_key]
             rest == Pop(objects[i].properties, text_key)
         IN MapObjectsPrepending([objects EXCEPT ![i] = [properties |-> rest]], i + 1,
                                 <<Document(text, rest)>> \o docs, text_key)

\* MapObjects passing over an object without text_key (properties.pop(key, None)
\* and a test) instead of raising
RECURSIVE MapObjectsSkipping(_, _, _, _)
MapObjectsSkipping(objects, i, docs, text_key) ==
    IF i > Len(objects)
    THEN [status |-> "ok", error |-> "", docs |-> docs, objects |-> objects]
    ELSE IF text_key \notin DOMAIN objects[i].properties
    THEN MapObjectsSkipping(objects, i + 1, docs, text_key)
    ELSE LET text == objects[i].properties[text_key]
             rest == Pop(objects[i].properties, text_key)
         IN MapObjectsSkipping([objects EXCEPT ![i] = [properties |-> rest]], i + 1,
                               Append(docs, Document(text, rest)), text_key)

\* the loop over result.objects, from object i on: docs collected so far,
\* objects as mutated so far.  pop raises KeyError on a mapping without
\* text_key, and the docs collected so far are lost with the frame.
RECURSIVE MapObjects(_, _, _, _)
MapObjects(objects, i, docs, text_key) ==
    IF i > Len(objects)
    THEN [status |-> "ok", error |-> "", docs |-> docs, objects |-> objects]
    ELSE IF text_key \notin DOMAIN objects[i].properties
    THEN [status |-> "raise", error |-> "KeyError", docs |-> <<>>, objects |-> objects]
    ELSE LET text == objects[i].properties[text_key]
             rest == Pop(objects[i].properties, text_key)
         IN MapObjects([objects EXCEPT ![i] = [properties |-> rest]], i + 1,
                       Append(docs, Document(text, rest)), text_key)

\* HybridCall building the keywords as a dict that kwargs updates
HybridCallOverriding(query, limit, alpha, vector, kwargs) ==
    [raised |-> FALSE, error |-> "",
     request |-> [key \in ExplicitKeys \cup DOMAIN kwargs |->
                     IF key \in DOMAIN kwargs THEN kwargs[key]
                     ELSE CASE key = "query" -> query
                            [] key = "limit" -> limit
                            [] key = "alpha" -> alpha
                            [] OTHER -> vector]]

\* HybridCall without **hybrid_search_kwargs
HybridCallWithoutKwargs(query, limit, alpha, vector, kwargs) ==
    [raised |-> FALSE, error |-> "",
     request |-> [key \in ExplicitKeys |->
                     CASE key = "query" -> query
                       [] key = "limit" -> limit
                       [] key = "alpha" -> alpha
                       [] OTHER -> vector]]

\* the keyword mapping the call query_obj.query.hybrid(query=..., limit=...,
\* alpha=..., vector=..., **kwargs) binds; Python raises TypeError, before the
\* callee runs, when kwargs repeats a keyword the call spells out
HybridCall(query, limit, alpha, vector, kwargs) ==
    IF DOMAIN kwargs \cap ExplicitKeys # {}
    THEN [raised |-> TRUE, error |-> "TypeError", request |-> <<>>]
    ELSE [raised |-> FALSE, error |-> "",
          request |-> [key \in ExplicitKeys \cup DOMAIN kwargs |->
                          CASE key = "query" -> query
                            [] key = "limit" -> limit
                            [] key = "alpha" -> alpha
                            [] key = "vector" -> vector
                            [] OTHER -> kwargs[key]]]

\* what an embed_query or query.hybrid call answers: it raises error, or it
\* returns value (a vector, or result.objects)
Answer(raises, error, value) ==
    [raises |-> raises, error |-> error, value |-> value]

Outcome(status, error, docs, ops, reqs, objects) ==
    [status |-> status, error |-> error, docs |-> docs, calls |-> ops,
     reqs |-> reqs, objects |-> objects]

\* GetCollection asking the store whether the collection is there first
GetCollectionEnsuring(me) == <<"collections.exists", "collections.get">>

\* query_obj = self.client.collections.get(self.index_name): the operations
\* of the client it invokes
GetCollection(me) == <<"collections.get">>

\* FromAnswer catching the store's error and answering with no documents
FromAnswerSwallowing(me, found, ops, reqs) ==
    IF found.raises
    THEN Outcome("ok", "", <<>>, ops, reqs, <<>>)
    ELSE LET mapped == MapObjects(found.value, 1, <<>>, me.text_key)
         IN Outcome(mapped.status, mapped.error, mapped.docs, ops, reqs,
                    mapped.objects)

\* the call of query.hybrid made, what the search does with its answer: an
\* error goes to the caller as it is, objects go through the loop
FromAnswer(me, found, ops, reqs) ==
    IF found.raises
    THEN Outcome("raise", found.error, <<>>, ops, reqs, <<>>)
    ELSE LET mapped == MapObjects(found.value, 1, <<>>, me.text_key)
         IN Outcome(mapped.status, mapped.error, mapped.docs, ops, reqs,
                    mapped.objects)

\* me: the instance; kw: <<>> for hybrid_search_kwargs=None, else <<mapping>>;
\* embedded, found: what embed_query and query.hybrid answer when called
GetRelevantDocuments(me, query, kw, embedded, found) ==
    LET ops1 == GetCollection(me)
        ops2 == Append(ops1, "embed_query")
    IN IF embedded.raises
       THEN Outcome("raise", embedded.error, <<>>, ops2, <<>>, <<>>)
       ELSE LET hybrid_search_kwargs == IF kw = <<>> THEN <<>> ELSE kw[1]
                call == HybridCall(query, me.k, me.alpha, embedded.value,
                                   hybrid_search_kwargs)
            IN IF call.raised
               THEN Outcome("raise", call.error, <<>>, ops2, <<>>, <<>>)
               ELSE FromAnswer(me, found, Append(ops2, "query.hybrid"),
                               <<call.request>>)

----------------------------------------------------------------------------
(* The state machine *)

NoCtor ==
    [status |-> "none", error |-> "", installed |-> FALSE, client |-> <<>>,
     index_name |-> "", text_key |-> "", before |-> <<>>, after |-> <<>>]

NoSearch ==
    [status |-> "none", error |-> "", docs |-> <<>>, query |-> "", kw |-> <<>>,
     embedded |-> Answer(FALSE, "", ""), found |-> Answer(FALSE, "", <<>>),
     objects |-> <<>>, existed |-> FALSE]

\* embedding.embed_query(text), when the provider answers
EmbedQuery(text) == IF text = "cat" THEN "v1" ELSE "v2"

\* the answer of a collaborator that was not called
NotAsked == Answer(FALSE, "", <<>>)

\* the search calls query.hybrid when the embedding provider answers: the
\* backing store answers only a call that reaches it
ReachesStore(me, query, kw) ==
    "query.hybrid" \in
        Range(GetRelevantDocuments(me, query, kw,
                  Answer(FALSE, "", EmbedQuery(query)), NotAsked).calls)

\* the backing store before the program starts: any of the collections may be
\* there already, with a schema of its own
Init ==
    /\ \E names \in SUBSET IndexNames :
          collections = [n \in names |-> LegacySchema(n)]
    /\ self = <<>>
    /\ ctor = NoCtor
    /\ search = NoSearch
    /\ calls = <<>>
    /\ createReqs = <<>>
    /\ hybridReqs = <<>>
    /\ nExists = 0

\* WeaviateHybridSearchRetriever(client=..., index_name=..., text_key=...,
\* alpha=..., k=..., embedding=...)
Construct(installed, client, index_name, text_key, alpha, k, createError) ==
    /\ ctor.status = "none"
    /\ (client # <<>> /\ client[1] = "WeaviateClient") => installed
    /\ \E r \in {ValidateClient(installed, client, index_name, text_key,
                               collections, createError)} :
          /\ collections' = r.store
          /\ self' = IF r.status = "ok"
                     THEN <<Instance(client, index_name, text_key, alpha, k)>>
                     ELSE <<>>
          /\ ctor' = [status |-> r.status, error |-> r.error,
                      installed |-> installed, client |-> client,
                      index_name |-> index_name, text_key |-> text_key,
                      before |-> collections, after |-> r.store]
          /\ calls' = r.calls
          /\ createReqs' = createReqs \o r.creates
          /\ nExists' = nExists + CountOf(r.calls, "collections.exists")
    /\ UNCHANGED <<search, hybridReqs>>

\* retriever._get_relevant_documents(query, hybrid_search_kwargs=kw)
Search(query, kw, embedded, found) ==
    /\ self # <<>>
    /\ \E r \in {GetRelevantDocuments(self[1], query, kw, embedded, found)} :
          /\ search' = [status |-> r.status, error |-> r.error, docs |-> r.docs,
                        query |-> query, kw |-> kw, embedded |-> embedded,
                        found |-> found, objects |-> r.objects,
                        existed |-> Exists(collections, self[1].index_name)]
          /\ calls' = r.calls
          /\ hybridReqs' = r.reqs
          /\ nExists' = nExists + CountOf(r.calls, "collections.exists")
    /\ UNCHANGED <<collections, self, ctor, createReqs>>

\* someone else removes a collection from the backing store
DropCollection(name) ==
    /\ name \in DOMAIN collections
    /\ collections' = [n \in DOMAIN collections \ {name} |-> collections[n]]
    /\ UNCHANGED <<self, ctor, search, calls, createReqs, hybridReqs, nExists>>

\* A collaborator answers only the calls that reach it: embed_query raises or
\* returns the vector of the query; query.hybrid, when called, raises or, the
\* collection being in the store, returns objects.
Next ==
    \/ \E installed \in BOOLEAN, client \in {<<>>} \cup {<<c>> : c \in ClientKinds},
          index_name \in RetrieverNames, text_key \in TextKeys,
          alpha \in {<<>>} \cup {<<a>> : a \in Alphas},
          k \in {<<>>} \cup {<<n>> : n \in Ks},
          createError \in {<<>>} \cup {<<e>> : e \in StoreErrors} :
          Construct(installed, client, index_name, text_key, alpha, k, createError)
    \/ \E query \in Queries, kw \in KwInputs :
          \/ \E e \in EmbedErrors : Search(query, kw, Answer(TRUE, e, ""), NotAsked)
          \/ /\ self # <<>>
             /\ ~ReachesStore(self[1], query, kw)
             /\ Search(query, kw, Answer(FALSE, "", EmbedQuery(query)), NotAsked)
          \/ /\ self # <<>>
             /\ ReachesStore(self[1], query, kw)
             /\ \E e \in StoreErrors :
                   Search(query, kw, Answer(FALSE, "", EmbedQuery(query)),
                          Answer(TRUE, e, <<>>))
          \/ /\ self # <<>>
             /\ ReachesStore(self[1], query, kw)
             /\ Exists(collections, self[1].index_name)
             /\ \E objects \in Responses :
                   Search(query, kw, Answer(FALSE, "", EmbedQuery(query)),
                          Answer(FALSE, "", objects))
    \/ \E name \in IndexNames : DropCollection(name)

Spec == Init /\ [][Next]_vars

----------------------------------------------------------------------------
(* The claims *)

Searched == search.status # "none"

\* the last search called query.hybrid
AskedStore == Searched /\ "query.hybrid" \in Range(calls)

\* the last search got result.objects back from query.hybrid
GotObjects == AskedStore /\ ~search.found.raises

HasText(object) == self[1].text_key \in DOMAIN object.properties

ClientOps ==
    {"collections.exists", "collections.create_from_dict", "collections.get",
     "query.hybrid"}

\* C1: when the store answers N records that all hold the text field, the
\* search returns N documents, document i made of record i: its text is the
\* record's value for the text field, its metadata the record's other
\* properties, keys and values unchanged
C1_DocumentsMirrorRecords ==
    (GotObjects /\ \A i \in 1..Len(search.found.value) : HasText(search.found.value[i]))
    => /\ search.status = "ok"
       /\ Len(search.docs) = Len(search.found.value)
       /\ \A i \in 1..Len(search.found.value) :
             LET props == search.found.value[i].properties
                 doc == search.docs[i]
             IN /\ doc.page_content = props[self[1].text_key]
                /\ DOMAIN doc.metadata = DOMAIN props \ {self[1].text_key}
                /\ \A key \in DOMAIN doc.metadata : doc.metadata[key] = props[key]

\* two different records, one of them with metadata, were mapped in order
C1_Witness ==
    /\ GotObjects
    /\ search.status = "ok"
    /\ Len(search.docs) = 2
    /\ search.docs[1] # search.docs[2]
    /\ DOMAIN search.docs[1].metadata # {}
    /\ DOMAIN search.docs[2].metadata = {}

\* C2: every request that reaches query.hybrid has the instance's alpha as
\* alpha and the instance's k as limit
C2_RequestCarriesAlphaAndLimit ==
    \A i \in 1..Len(hybridReqs) :
        /\ hybridReqs[i]["alpha"] = self[1].alpha
        /\ hybridReqs[i]["limit"] = self[1].k

\* a request went out from a retriever built with an alpha and a k of its own
C2_Witness ==
    /\ Len(hybridReqs) = 1
    /\ self[1].alpha # DefaultAlpha
    /\ self[1].k # DefaultK
    /\ search.kw # <<>>

\* C3: when embed_query raises, the search raises and no operation of the
\* client was invoked in it
C3_NoClientCallWhenEmbeddingRaises ==
    (Searched /\ search.embedded.raises)
    => /\ search.status = "raise"
       /\ Range(calls) \cap ClientOps = {}

\* C4: when query.hybrid raises, the search raises the same error, query.hybrid
\* was called once, and the caller gets no documents
C4_StoreErrorPropagates ==
    (AskedStore /\ search.found.raises)
    => /\ search.status = "raise"
       /\ search.error = search.found.error
       /\ search.docs = <<>>
       /\ CountOf(calls, "query.hybrid") = 1
       /\ Len(hybridReqs) = 1

C4_Witness ==
    /\ AskedStore
    /\ search.found.raises
    /\ search.error = "ConnectionError"

\* the construction was given an instance of weaviate.WeaviateClient
ValidClient == ctor.status # "none" /\ ctor.client = <<"WeaviateClient">>

\* C5: constructing with a valid client while the collection index_name is not
\* in the store sends one create request, for the class index_name with the
\* one property text_key of data type text; the collection is in the store
\* when the construction has returned
C5_CreatesMissingCollection ==
    (ValidClient /\ ctor.index_name \notin DOMAIN ctor.before)
    => /\ createReqs =
            <<[class |-> ctor.index_name,
               properties |-> <<[name |-> ctor.text_key, dataType |-> <<"text">>]>>]>>
       /\ ctor.status = "ok" =>
            /\ ctor.index_name \in DOMAIN ctor.after
            /\ ctor.after[ctor.index_name] = createReqs[1]

C5_Witness ==
    /\ ValidClient
    /\ ctor.status = "ok"
    /\ ctor.index_name \notin DOMAIN ctor.before
    /\ ctor.text_key = "title"
    /\ Len(createReqs) = 1

\* C6: constructing while the collection index_name is in the store sends no
\* create request and leaves the store's collections and schemas as they were
C6_ExistingCollectionUntouched ==
    (ValidClient /\ ctor.index_name \in DOMAIN ctor.before)
    => /\ ctor.status = "ok"
       /\ createReqs = <<>>
       /\ ctor.after = ctor.before

\* the collection was there with fields that are not the retriever's
C6_Witness ==
    /\ ValidClient
    /\ ctor.index_name \in DOMAIN ctor.before
    /\ ctor.before[ctor.index_name] = LegacySchema(ctor.index_name)
    /\ self # <<>>

\* the construction was given a client that is no weaviate.WeaviateClient
WrongClient == ctor.status # "none" /\ ctor.client # <<>> /\ ctor.client[1] # "WeaviateClient"

NothingAsked ==
    /\ nExists = 0
    /\ createReqs = <<>>
    /\ ctor.after = ctor.before
    /\ self = <<>>

\* C7 as stated: a client of the wrong type makes the construction fail with
\* ValueError, nothing asked of the store, no instance
C7_WrongClientValueError ==
    WrongClient => (ctor.status = "raise" /\ ctor.error = "ValueError" /\ NothingAsked)

\* C7 as amended: a client of the wrong type makes the construction fail,
\* nothing asked of the store, no instance; the error is ValueError when
\* weaviate can be imported and ImportError when it cannot
C7_WrongClientConfigurationError ==
    WrongClient
    => /\ ctor.status = "raise"
       /\ ctor.error = IF ctor.installed THEN "ValueError" ELSE "ImportError"
       /\ NothingAsked

C7_Witness ==
    /\ WrongClient
    /\ ctor.installed
    /\ ctor.error = "ValueError"
    /\ ctor.index_name \notin DOMAIN collections

\* C9: a retriever's existence check is made once, at its construction, and
\* at most one create request with it; a search makes neither, also when the
\* collection is no longer in the store
C9_SchemaEnsuredOnce ==
    /\ self # <<>> => (nExists = 1 /\ Len(createReqs) <= 1)
    /\ Searched =>
          Range(calls) \cap {"collections.exists", "collections.create_from_dict"} = {}

\* a search ran while the collection was gone from the store
C9_Witness ==
    /\ Searched
    /\ ~search.existed
    /\ "collections.get" \in Range(calls)
    /\ nExists = 1

\* C8: every request that reaches query.hybrid has the caller's query as query,
\* what embed_query returned for that query as vector, and every pair of
\* hybrid_search_kwargs; without hybrid_search_kwargs it has the four keywords
\* query, vector, alpha, limit and no other
C8_RequestCarriesQueryVectorAndKwargs ==
    \A i \in 1..Len(hybridReqs) :
        LET request == hybridReqs[i]
        IN /\ request["query"] = search.query
           /\ request["vector"] = search.embedded.value
           /\ request["vector"] = EmbedQuery(search.query)
           /\ search.kw # <<>> =>
                 \A key \in DOMAIN search.kw[1] : /\ key \in DOMAIN request
                                                  /\ request[key] = search.kw[1][key]
           /\ search.kw = <<>> =>
                 DOMAIN request = {"query", "vector", "alpha", "limit"}

C8_Witness ==
    /\ Len(hybridReqs) = 1
    /\ search.query = "dog"
    /\ search.kw # <<>>
    /\ "auto_limit" \in DOMAIN search.kw[1]

\* C10: when a record of the answer has no text field the search raises and
\* the caller gets no documents; the caller gets documents only when every
\* record had the text field
C10_NoPartialResult ==
    /\ (GotObjects /\ \E i \in 1..Len(search.found.value) : ~HasText(search.found.value[i]))
        => (search.status = "raise" /\ search.docs = <<>>)
    /\ (Searched /\ search.status = "ok")
        => /\ GotObjects
           /\ \A i \in 1..Len(search.found.value) : HasText(search.found.value[i])
           /\ Len(search.docs) = Len(search.found.value)

\* the first record was taken (its properties lost the text field), the second
\* has no text field
C10_Witness ==
    /\ GotObjects
    /\ Len(search.found.value) = 2
    /\ HasText(search.found.value[1])
    /\ ~HasText(search.found.value[2])
    /\ search.objects[1] # search.found.value[1]
    /\ search.status = "raise"

====
